---- MODULE Spec2Model ----
(***************************************************************************)
(* The per-host verification engine of the mirror crawler                  *)
(* (utility/crawler.py): worker -> per_host -> try_per_category /          *)
(* try_per_dir / try_per_file -> add_parents -> sync_hcds.                 *)
(*                                                                         *)
(* One host is crawled MaxCrawls times in sequence.  The catalog (host     *)
(* categories, directories, HostCategoryDir rows) is chosen in Init; the   *)
(* remote mirror's answers are inputs of the actions.                      *)
(***************************************************************************)
EXTENDS Integers, Sequences, FiniteSets, TLC

\* ------------------------------------------------------------------ values
\* Python's True / False / None as they are stored in the verdict map and in
\* HostCategoryDir.up2date.
True == "True"
False == "False"
None == "None"
\* hcd.directory is None / parent() found no Directory: names are non-empty
\* sequences of path components, so the empty sequence stands for "no
\* Directory".
NoDir == << >>
\* no key was recorded true by the latest step
NoKey == << >>

\* ------------------------------------------------------------------ bounds
\* worker invocations for the host, one after the other
MaxCrawls == 2

\* options.timeout_minutes, at its default
timeout_minutes == 120

\* ---------------------------------------------------------------- catalog
\* Directory names, as lists of path components ("pub/f/a" is
\* <<"pub","f","a">>).
Pub == <<"pub">>
TopE == <<"pub", "e">>
TopF == <<"pub", "f">>
DirA == <<"pub", "f", "a">>
DirX == <<"pub", "f", "a", "x">>
\* every name the model uses, in the order of Python's string comparison
AllNames == << Pub, TopE, TopF, DirA, DirX >>

\* Directory.files of the master: name -> {size}; listed in the order
\* d.files.keys() yields them.
FilesA == << [name |-> "f1", size |-> 1], [name |-> "repomd.xml", size |-> 2] >>
FilesX == << [name |-> "g", size |-> 1] >>
FilesE == << [name |-> "h", size |-> 1] >>

Dir(readable, hasfiles, files) ==
    [readable |-> readable, hasfiles |-> hasfiles, files |-> files]

\* the Directory tables a crawl may find (name -> Directory); hasfiles = FALSE
\* is "d.files is None".  pub/f/a may have no known contents, pub/f/a/x may
\* be unreadable.
DirectoryTables ==
    { [n \in {Pub, TopE, TopF, DirA, DirX} |->
          CASE n = DirA -> Dir(TRUE, v[1], IF v[1] THEN FilesA ELSE << >>)
            [] n = DirX -> Dir(v[2], TRUE, FilesX)
            [] n = TopE -> Dir(TRUE, TRUE, FilesE)
            [] OTHER -> Dir(TRUE, FALSE, << >>)]
      : v \in { <<TRUE, TRUE>>, <<FALSE, TRUE>>, <<TRUE, FALSE>> } }

\* URLs: the scheme is all the crawler looks at (u.startswith('rsync:') ...)
Url(scheme) == [scheme |-> scheme]
NoUrl == [scheme |-> "None"]

HostCategory(id, topdir, always_up2date, urls) ==
    [id |-> id, topdir |-> topdir, always_up2date |-> always_up2date,
     urls |-> urls]

\* host.categories: category "f" (topdir pub/f) and category "e" (topdir
\* pub/e), or no category at all.
HostCategoryLists ==
    { << HostCategory(1, TopF, FALSE, u1), HostCategory(2, TopE, e[1], e[2]) >>
      : u1 \in { <<Url("http")>>, <<Url("ftp")>>, <<Url("rsync"), Url("http")>> },
        e \in { <<FALSE, <<Url("rsync")>> >>, <<TRUE, <<Url("rsync")>> >>,
                <<FALSE, << >> >> } }
    \cup { << >> }

\* a HostCategoryDir row
HostCategoryDir(hc, path, directory, up2date) ==
    [host_category_id |-> hc, path |-> path, directory |-> directory,
     up2date |-> up2date]

\* the HostCategoryDir tables a crawl may start from.  The row of pub/f/a/x
\* may carry a path column that is not the one the crawler derives from the
\* directory name (the two are separate columns); category "e" has no row, a
\* row for its top directory, or a row that lost its Directory (deleted on the
\* master).  In the last table category "f" has no row yet and category "e"
\* has one.
HcdTables ==
    { << HostCategoryDir(1, <<"a">>, DirA, True),
         HostCategoryDir(1, px, DirX, None) >> \o e
      : px \in { <<"a", "x">>, <<"x">> },
        e \in { << >>,
                << HostCategoryDir(2, << >>, TopE, True) >>,
                << HostCategoryDir(2, <<"gone">>, NoDir, True) >> } }
    \cup { << HostCategoryDir(2, << >>, TopE, False) >> }

\* ------------------------------------------------------------ MethodSelector
RECURSIVE FirstWith(_, _)
\* the first URL of the list with the scheme, or NoUrl
FirstWith(urls, scheme) ==
    IF urls = << >> THEN NoUrl
    ELSE IF Head(urls).scheme = scheme THEN Head(urls)
    ELSE FirstWith(Tail(urls), scheme)

\* method_pref with a "return pref" in place of the "break" of its first
\* loop: nothing is picked after an rsync URL
method_pref_no_fallback(urls, prev) ==
    IF prev.scheme = "rsync" THEN NoUrl
    ELSE IF FirstWith(urls, "rsync") # NoUrl THEN FirstWith(urls, "rsync")
    ELSE IF FirstWith(urls, "http") # NoUrl THEN FirstWith(urls, "http")
    ELSE FirstWith(urls, "ftp")

\* method_pref(urls, prev=""): prev is NoUrl for the default ""
method_pref(urls, prev) ==
    LET first_loop == IF urls = << >> \/ prev.scheme = "rsync"
                      THEN NoUrl
                      ELSE FirstWith(urls, "rsync")
    IN  IF first_loop # NoUrl THEN first_loop
        ELSE IF FirstWith(urls, "http") # NoUrl THEN FirstWith(urls, "http")
        ELSE FirstWith(urls, "ftp")

\* ---------------------------------------------------------- ParentPropagator
\* the verdict map with key k set to v
Put(m, k, v) == (k :> v) @@ m

\* parent(session, directory): the Directory named by the path without its
\* last component, NoDir when there is no such path or no such Directory
parent(dirs, name) ==
    IF Len(name) > 1
    THEN LET parentPath == SubSeq(name, 1, Len(name) - 1)
         IN  IF parentPath \in DOMAIN dirs THEN parentPath ELSE NoDir
    ELSE NoDir

RECURSIVE add_parents_overwrite(_, _, _, _)
\* add_parents without its test "(hc, parentDir) not in host_category_dirs"
add_parents_overwrite(dirs, host_category_dirs, hc, d) ==
    LET parentDir == parent(dirs, d)
    IN  IF parentDir # NoDir
        THEN LET m == Put(host_category_dirs, <<hc.id, parentDir>>, None)
             IN  IF parentDir # hc.topdir
                 THEN add_parents_overwrite(dirs, m, hc, parentDir)
                 ELSE m
        ELSE host_category_dirs

RECURSIVE add_parents(_, _, _, _)
add_parents(dirs, host_category_dirs, hc, d) ==
    LET parentDir == parent(dirs, d)
    IN  IF parentDir # NoDir
        THEN LET m == IF <<hc.id, parentDir>> \notin DOMAIN host_category_dirs
                      THEN Put(host_category_dirs, <<hc.id, parentDir>>, None)
                      ELSE host_category_dirs
             IN  IF parentDir # hc.topdir
                 THEN add_parents(dirs, m, hc, parentDir)
                 ELSE m
        ELSE host_category_dirs

\* ------------------------------------------------------------- FTP listing
\* What one LIST of the pooled FTP connection does: code 226 is a listing
\* that arrived (lines are its raw lines, each a list of whitespace-separated
\* fields), code 0 is EOFError / socket.error, 4xx is ftplib.error_temp and
\* 5xx ftplib.error_perm with that reply code.
Reply(code, lines) == [code |-> code, lines |-> lines]

\* the result of get_ftp_dir at depth i: with it, the number of calls of
\* hoststate.ftp_dir (lists) and of hoststate.close_ftp (quits) it made
Out(exc, lines, i, lists) ==
    [exc |-> exc, lines |-> lines, lists |-> lists, quits |-> i]

RECURSIVE get_ftp_dir_twice(_, _, _)
\* get_ftp_dir with the test "if i > 2": two reconnections
get_ftp_dir_twice(replies, readable, i) ==
    IF i > 2 THEN Out("TryLater", << >>, i, i)
    ELSE
    LET e == IF replies = << >> THEN Reply(0, << >>) ELSE Head(replies)
        rest == IF replies = << >> THEN << >> ELSE Tail(replies)
    IN  CASE e.code = 226 -> Out("", e.lines, i, i + 1)
          [] e.code = 550 -> Out("", << >>, i, i + 1)
          [] e.code = 553 -> IF readable THEN Out("", << >>, i, i + 1)
                             ELSE Out("ForbiddenExpected", << >>, i, i + 1)
          [] e.code = 530 -> get_ftp_dir_twice(rest, readable, i + 1)
          [] e.code = 500 -> Out("TryLater", << >>, i, i + 1)
          [] e.code = 450 -> Out("", << >>, i, i + 1)
          [] e.code = 421 -> Out("TryLater", << >>, i, i + 1)
          [] e.code = 425 -> Out("TryLater", << >>, i, i + 1)
          [] e.code = 0 -> get_ftp_dir_twice(rest, readable, i + 1)
          [] OTHER -> Out("Error", << >>, i, i + 1)

RECURSIVE get_ftp_dir(_, _, _)
\* get_ftp_dir(hoststate, url, readable, i): replies are the server's answers
\* to the successive LISTs (none left: the connection is dead, EOFError)
get_ftp_dir(replies, readable, i) ==
    IF i > 1 THEN Out("TryLater", << >>, i, i)
    ELSE
    LET e == IF replies = << >> THEN Reply(0, << >>) ELSE Head(replies)
        rest == IF replies = << >> THEN << >> ELSE Tail(replies)
    IN  CASE e.code = 226 -> Out("", e.lines, i, i + 1)
          [] e.code = 550 -> Out("", << >>, i, i + 1)
          [] e.code = 553 -> IF readable THEN Out("", << >>, i, i + 1)
                             ELSE Out("ForbiddenExpected", << >>, i, i + 1)
          [] e.code = 530 -> get_ftp_dir(rest, readable, i + 1)
          [] e.code = 500 -> Out("TryLater", << >>, i, i + 1)
          [] e.code = 450 -> Out("", << >>, i, i + 1)
          [] e.code = 421 -> Out("TryLater", << >>, i, i + 1)
          [] e.code = 425 -> Out("TryLater", << >>, i, i + 1)
          [] e.code = 0 -> get_ftp_dir(rest, readable, i + 1)
          [] OTHER -> Out("Error", << >>, i, i + 1)

\* check_ftp_file(hoststate, url, filedata, readable)
check_ftp_file(replies, filedata, readable) ==
    LET results == get_ftp_dir(replies, readable, 0)
    IN  CASE results.exc = "TryLater" -> "TryLater"
          [] results.exc = "ForbiddenExpected" -> None
          [] results.exc # "" -> results.exc
          [] Len(results.lines) = 1 ->
                IF Len(results.lines[1]) < 5 THEN "Error"   \* IndexError
                ELSE IF results.lines[1][5] = filedata.size THEN True
                ELSE False
          [] OTHER -> False

\* ---------------------------------------------------------------- HTTP HEAD
\* What one HEAD does: status 0 is an exception of conn.getresponse(),
\* status -1 one of hoststate.open_http(); clen is the Content-Length header
\* (-1: no such header); location is the scheme of the Location header
\* ("None": no such header).
Response(status, clen, location) ==
    [status |-> status, clen |-> clen, location |-> location]

\* the answers of the mirror for one expected file: the HEAD responses in the
\* order they are received, the replies of an FTP server a redirect may lead
\* to, and what compare_sha256 does ("True", "False" or "Error")
Answers(http, ftp, sha) == [http |-> http, ftp |-> ftp, sha |-> sha]

RECURSIVE check_head(_, _, _, _, _)
\* check_head(hoststate, url, filedata, recursion, readable, retry);
\* handle_redirect and check_url are unfolded in the 3xx branch
check_head(x, filedata, recursion, readable, retry) ==
    LET r == IF x.http = << >> THEN Response(0, -1, "None") ELSE Head(x.http)
        rest == [x EXCEPT !.http = IF x.http = << >> THEN << >> ELSE Tail(x.http)]
    IN  IF r.status = -1 THEN None
        ELSE IF r.status = 0
        THEN IF retry = 0
             THEN check_head(rest, filedata, recursion, readable, 1)
             ELSE "HTTPUnknown"
        ELSE IF r.status >= 200 /\ r.status < 300
        THEN IF filedata.size = r.clen \/ r.clen = -1 THEN True ELSE False
        ELSE IF r.status >= 300 /\ r.status < 400
        THEN \* handle_redirect
             IF recursion > 10 THEN "HTTPUnknown"
             ELSE IF r.location = "None" THEN "Error"   \* None.startswith
             \* check_url
             ELSE IF r.location = "http"
             THEN check_head(rest, filedata, recursion + 1, readable, 0)
             ELSE IF r.location = "ftp"
             THEN check_ftp_file(x.ftp, filedata, readable)
             ELSE None
        ELSE IF r.status >= 400 /\ r.status < 500
        THEN IF r.status = 403
             THEN IF readable THEN False ELSE "ForbiddenExpected"
             ELSE IF r.status = 404 \/ r.status = 410 THEN False
             ELSE None
        ELSE IF r.status >= 500 THEN "HTTP500"
        ELSE "HTTPUnknown"

\* check_url(hoststate, url, filedata, recursion, readable)
check_url(scheme, x, filedata, recursion, readable) ==
    IF scheme = "http" THEN check_head(x, filedata, recursion, readable, 0)
    ELSE IF scheme = "ftp" THEN check_ftp_file(x.ftp, filedata, readable)
    ELSE None

RECURSIVE try_per_file_loop(_, _, _, _, _)
\* the loop of try_per_file from file i on; exists is the variable of the
\* code, and the value after the loop decides
try_per_file_loop(d, scheme, answers, i, exists) ==
    IF i > Len(d.files)
    THEN IF exists = None THEN None ELSE True
    ELSE
    LET checked == check_url(scheme, answers[i], d.files[i], 0, d.readable)
        sha == answers[i].sha
        compared == IF d.files[i].name = "repomd.xml" /\ sha # "Error"
                    THEN sha ELSE checked
    IN  IF checked = False THEN False
        ELSE IF checked = "TryLater" THEN "TryLater"
        ELSE IF checked \notin {True, None} THEN None
        ELSE IF d.files[i].name = "repomd.xml" /\ compared = False THEN False
        ELSE try_per_file_loop(d, scheme, answers, i + 1, compared)

\* try_per_file(d, hoststate, url): a verdict or "TryLater"
try_per_file(d, scheme, answers) ==
    IF ~d.hasfiles THEN None
    ELSE try_per_file_loop(d, scheme, answers, 1, None)

\* ------------------------------------------------------- FTP directory probe
RECURSIVE ftp_results(_, _)
\* the dict results of try_per_dir: name -> size, a later line replacing an
\* earlier one; lines starting with "total" and lines with fewer than nine
\* fields are passed over
ftp_results(listing, results) ==
    IF listing = << >> THEN results
    ELSE LET fields == Head(listing)
         IN  IF fields # << >> /\ fields[1] = "total"
             THEN ftp_results(Tail(listing), results)
             ELSE IF Len(fields) < 9
             THEN ftp_results(Tail(listing), results)
             ELSE ftp_results(Tail(listing), Put(results, fields[9], fields[5]))

\* try_per_dir(d, hoststate, url): a verdict, "TryLater", or "Error" for any
\* other exception of get_ftp_dir
try_per_dir(d, scheme, replies) ==
    IF ~d.hasfiles THEN None
    ELSE IF scheme # "ftp" THEN None
    ELSE
    LET listing == get_ftp_dir(replies, d.readable, 0)
        results == ftp_results(listing.lines, << >>)
    IN  IF listing.exc # "" THEN listing.exc
        ELSE IF Len(listing.lines) = 0 THEN False
        ELSE IF \E i \in 1..Len(d.files) :
                   \/ d.files[i].name \notin DOMAIN results
                   \/ results[d.files[i].name] # d.files[i].size
        THEN False
        ELSE True

\* ------------------------------------------------------ rsync category probe
RECURSIVE rsync_dict(_, _)
\* the dict rsync of try_per_category: fields[4] -> {mode, size}; a line with
\* fewer than five fields is passed over (IndexError)
rsync_dict(listing, rsync) ==
    IF listing = << >> THEN rsync
    ELSE LET fields == Head(listing)
         IN  IF Len(fields) < 5 THEN rsync_dict(Tail(listing), rsync)
             ELSE rsync_dict(Tail(listing),
                             Put(rsync, fields[5],
                                 [mode |-> fields[1], size |-> fields[2]]))

\* the verdict of try_per_category for one readable directory d whose name
\* without the category prefix is name: all_files
all_files(rsync, d, name) ==
    ~ \E i \in 1..Len(d.files) :
        LET key == name \o <<d.files[i].name>>
        IN  \/ key \notin DOMAIN rsync                           \* KeyError
            \/ /\ rsync[key].size # d.files[i].size
               /\ rsync[key].mode # "l"

\* ---------------------------------------------------------------- ResultSync
\* path = d.name[len(topname)+1:], and dirname = d.name[categoryPrefixLen:]
path(topname, name) == SubSeq(name, Len(topname) + 1, Len(name))

Stats0 ==
    [numkeys |-> 0, up2date |-> 0, not_up2date |-> 0, unchanged |-> 0,
     unknown |-> 0, newdir |-> 0, deleted_on_master |-> 0]

\* every possible key of the verdict map, sorted by directory name
AllKeys ==
    [i \in 1..(2 * Len(AllNames)) |->
        << ((i - 1) % 2) + 1, AllNames[((i - 1) \div 2) + 1] >>]

\* sorted(host_category_dirs.keys(), key = lambda t: t[1].name)
sorted_keys(host_category_dirs) ==
    SelectSeq(AllKeys, LAMBDA k : k \in DOMAIN host_category_dirs)

\* get_hostcategorydir_by_hostcategoryid_and_path: the rows (their indices in
\* the table) with that host category and that path
get_hostcategorydir_by_hostcategoryid_and_path(hcds, host_category_id, p) ==
    { i \in 1..Len(hcds) :
        hcds[i].host_category_id = host_category_id /\ hcds[i].path = p }

Min(S) == CHOOSE x \in S : \A y \in S : x <= y

\* sync_entry without its "if not up2date: continue": a row is constructed
\* for a False verdict too
sync_entry_any(st, hc, d, up2date) ==
    IF up2date = None
    THEN [st EXCEPT !.stats.unknown = @ + 1]
    ELSE
    LET p == path(hc.topdir, d)
        hcd == get_hostcategorydir_by_hostcategoryid_and_path(st.hcds, hc.id, p)
        i == IF hcd # {} THEN Min(hcd) ELSE Len(st.hcds) + 1
        t0 == IF hcd # {} THEN st.hcds
              ELSE Append(st.hcds, HostCategoryDir(hc.id, p, d, None))
        changed == t0[i].up2date # up2date
        s0 == IF hcd = {} THEN [st.stats EXCEPT !.newdir = @ + 1] ELSE st.stats
        s1 == IF ~changed THEN [s0 EXCEPT !.unchanged = @ + 1]
              ELSE IF up2date = False
              THEN [s0 EXCEPT !.not_up2date = @ + 1]
              ELSE [s0 EXCEPT !.up2date = @ + 1]
    IN  [st EXCEPT
            !.hcds = [t0 EXCEPT ![i].up2date = up2date,
                                ![i].directory = IF @ = NoDir THEN d ELSE @],
            !.stats = s1,
            !.current = st.current \cup {i},
            !.created = IF hcd = {} THEN st.created \cup {<<hc.id, d>>}
                        ELSE st.created]

\* one iteration of the first loop of sync_hcds, for the key (hc, d) with the
\* verdict up2date; st holds the table, the stats, current_hcds (row indices)
\* and the keys for which a HostCategoryDir was constructed
sync_entry(st, hc, d, up2date) ==
    IF up2date = None
    THEN [st EXCEPT !.stats.unknown = @ + 1]
    ELSE
    LET p == path(hc.topdir, d)
        hcd == get_hostcategorydir_by_hostcategoryid_and_path(st.hcds, hc.id, p)
    IN  IF hcd = {} /\ up2date # True
        THEN st
        ELSE
        LET i == IF hcd # {} THEN Min(hcd) ELSE Len(st.hcds) + 1
            t0 == IF hcd # {} THEN st.hcds
                  ELSE Append(st.hcds, HostCategoryDir(hc.id, p, d, None))
            t1 == IF t0[i].directory = NoDir
                  THEN [t0 EXCEPT ![i].directory = d] ELSE t0
            changed == t1[i].up2date # up2date
            s0 == IF hcd = {} THEN [st.stats EXCEPT !.newdir = @ + 1]
                  ELSE st.stats
            s1 == IF ~changed THEN [s0 EXCEPT !.unchanged = @ + 1]
                  ELSE IF up2date = False
                  THEN [s0 EXCEPT !.not_up2date = @ + 1]
                  ELSE [s0 EXCEPT !.up2date = @ + 1]
        IN  [st EXCEPT
                !.hcds = [t1 EXCEPT ![i].up2date = up2date],
                !.stats = s1,
                !.current = st.current \cup {i},
                !.created = IF hcd = {} THEN st.created \cup {<<hc.id, d>>}
                            ELSE st.created]

RECURSIVE sync_loop(_, _, _, _)
sync_loop(st, hostcats, host_category_dirs, keys) ==
    IF keys = << >> THEN st
    ELSE LET k == Head(keys)
         IN  sync_loop(sync_entry(st, hostcats[k[1]], k[2], host_category_dirs[k]),
                       hostcats, host_category_dirs, Tail(keys))

\* the second loop with "if hcd.directory is None or not
\* hcd.directory.readable: continue": a row without directory is passed over
sync_historical_skipnull(st, dirs) ==
    LET rows == 1..Len(st.hcds)
        unreadable == { i \in rows : /\ st.hcds[i].directory # NoDir
                                     /\ ~dirs[st.hcds[i].directory].readable }
        old == { i \in rows : i \notin st.current /\ st.hcds[i].directory # NoDir }
        stale == { i \in old : st.hcds[i].up2date # False }
    IN  IF unreadable # {} THEN [st EXCEPT !.exc = "KeyError"]
        ELSE [st EXCEPT
                !.hcds = [i \in rows |->
                            IF i \in old
                            THEN [st.hcds[i] EXCEPT !.up2date = False]
                            ELSE st.hcds[i]],
                !.stats.deleted_on_master = Cardinality(stale)]

\* the second loop without its test "if hcd.up2date != False": every row
\* that is not current is written and counted
sync_historical_recount(st, dirs) ==
    LET rows == 1..Len(st.hcds)
        unreadable == { i \in rows : /\ st.hcds[i].directory # NoDir
                                     /\ ~dirs[st.hcds[i].directory].readable }
    IN  IF unreadable # {} THEN [st EXCEPT !.exc = "KeyError"]
        ELSE [st EXCEPT
                !.hcds = [i \in rows |->
                            IF i \in rows \ st.current
                            THEN [st.hcds[i] EXCEPT !.up2date = False]
                            ELSE st.hcds[i]],
                !.stats.deleted_on_master = Cardinality(rows \ st.current)]

\* the second loop of sync_hcds over every row of every category of the
\* host: stats['unreadable'] is no key of stats, so the first row of an
\* unreadable directory raises KeyError
sync_historical(st, dirs) ==
    LET rows == 1..Len(st.hcds)
        unreadable == { i \in rows : /\ st.hcds[i].directory # NoDir
                                     /\ ~dirs[st.hcds[i].directory].readable }
        stale == { i \in rows : i \notin st.current /\ st.hcds[i].up2date # False }
    IN  IF unreadable # {} THEN [st EXCEPT !.exc = "KeyError"]
        ELSE [st EXCEPT
                !.hcds = [i \in rows |->
                            IF i \in rows \ st.current
                            THEN [st.hcds[i] EXCEPT !.up2date = False]
                            ELSE st.hcds[i]],
                !.stats.deleted_on_master = Cardinality(stale)]

\* sync_hcds(session, host, host_category_dirs) up to its session.commit()
sync_hcds(hcds, dirs, hostcats, host_category_dirs) ==
    LET keys == sorted_keys(host_category_dirs)
        st0 == [ran |-> FALSE, ok |-> FALSE, hcds |-> hcds,
                stats |-> [Stats0 EXCEPT !.numkeys = Len(keys)],
                current |-> {}, created |-> {}, exc |-> ""]
    IN  sync_historical(sync_loop(st0, hostcats, host_category_dirs, keys), dirs)

\* ------------------------------------------------------------- DeadlineGuard
\* time.time() - threadlocal.starttime at a directory boundary, in seconds
Clock == {0, timeout_minutes * 60, timeout_minutes * 60 + 1}

\* timeout_check(options) raises TimeoutException
timeout_check(delta) == delta > timeout_minutes * 60

\* ------------------------------------------------- the answers of the mirror
\* a line of an FTP LIST: field 4 is the size, field 8 the name
FtpLine(name, size) ==
    << "-rw-r--r--", "1", "ftp", "ftp", size, "Jan", "1", "00:00", name >>
TotalLine == << "total", "8" >>

RECURSIVE FtpLines(_, _)
\* the lines of a listing in which file i of files is there with its size
\* ("same"), there with another size ("diff") or not there ("none")
FtpLines(files, how) ==
    IF files = << >> THEN << >>
    ELSE LET f == Head(files)
             rest == FtpLines(Tail(files), Tail(how))
         IN  CASE Head(how) = "same" -> <<FtpLine(f.name, f.size)>> \o rest
               [] Head(how) = "diff" -> <<FtpLine(f.name, f.size + 1)>> \o rest
               [] OTHER -> rest

\* the per-file choices for a list of n files
Hows(n, S) == [1..n -> S]

\* the listings a LIST of directory d may return
FtpListings(d) ==
    { (IF total THEN <<TotalLine>> ELSE << >>) \o FtpLines(d.files, how)
      : total \in BOOLEAN, how \in Hows(Len(d.files), {"same", "diff", "none"}) }

\* the reply codes other than a listing
FtpCodes == {550, 553, 530, 500, 502, 450, 421, 425, 426, 0}

\* what the FTP server does on the successive LISTs of one probe
FtpScripts(d) ==
    { <<Reply(c, << >>)>> : c \in FtpCodes }
    \cup { <<Reply(226, l)>> : l \in FtpListings(d) }
    \cup { <<Reply(c1, << >>), Reply(c2, << >>)>> : c1 \in {530, 0}, c2 \in {530, 0, 550} }
    \cup { <<Reply(530, << >>), Reply(226, l)>> : l \in FtpListings(d) }

\* the HEAD responses for one expected file
HeadScripts ==
    { <<Response(st, -1, "None")>> : st \in {401, 403, 404, 500} }
    \cup { <<Response(200, c, "None")>> : c \in {-1, 1, 2} }
    \cup { <<Response(0, -1, "None"), Response(0, -1, "None")>> }
    \cup { <<Response(301, -1, "ftp")>> }
    \cup { <<Response(301, -1, "http"), Response(200, 1, "None")>> }

\* the answers for one expected file; the parts no code reads (the FTP
\* replies without a redirect to ftp, the hash of a file other than
\* repomd.xml) are fixed
FileAnswers(f) ==
    { Answers(h, <<Reply(421, << >>)>>, "Error") : h \in HeadScripts }
    \cup { Answers(<<Response(301, -1, "ftp")>>,
                   <<Reply(226, <<FtpLine(f.name, f.size)>>)>>, "Error") }
    \cup IF f.name = "repomd.xml"
         THEN { Answers(<<Response(st, f.size, "None")>>, <<Reply(421, << >>)>>, sha)
                : st \in {200, 401}, sha \in {"True", "False"} }
         ELSE {}

RECURSIVE DirAnswers(_)
\* the answers for the expected files, one per file
DirAnswers(files) ==
    IF files = << >> THEN { << >> }
    ELSE { <<a>> \o rest : a \in FileAnswers(Head(files)),
                           rest \in DirAnswers(Tail(files)) }

\* a line of the rsync listing: mode size date time name
RsyncLine(mode, size, name) == << mode, size, "2014/01/01", "00:00:00", name >>

RECURSIVE RsyncLines(_, _, _)
\* the lines of the rsync listing for the files of a directory: file i is
\* listed with its size ("same"), with another size ("diff"), as a symbolic
\* link of another size ("link") or not at all ("none")
RsyncLines(files, name, how) ==
    IF files = << >> THEN << >>
    ELSE LET f == Head(files)
             key == name \o <<f.name>>
             rest == RsyncLines(Tail(files), name, Tail(how))
         IN  CASE Head(how) = "same" -> <<RsyncLine("-", f.size, key)>> \o rest
               [] Head(how) = "diff" -> <<RsyncLine("-", f.size + 1, key)>> \o rest
               [] Head(how) = "link" -> <<RsyncLine("l", f.size + 1, key)>> \o rest
               [] OTHER -> rest

\* the part of the rsync listing that is about directory d
RsyncListings(d, name) ==
    { <<RsyncLine("d", 4096, <<".">>), <<"skipping", "x">> >> \o RsyncLines(d.files, name, how)
      : how \in Hows(Len(d.files), {"same", "diff", "link", "none"}) }

\* run_rsync(url, '--no-motd'): it raises, or returns an exit code and a
\* listing that parses to no entry or to some
RsyncRuns ==
    { [raised |-> TRUE, result |-> 0, empty |-> TRUE] }
    \cup { [raised |-> FALSE, result |-> r, empty |-> e] : r \in {0, 10, 23}, e \in BOOLEAN }

\* -------------------------------------------------------------------- state
VARIABLES
    directory,        \* the Directory table of the catalog: name -> Directory
    hostcats,         \* host.categories
    private,          \* host.private
    db,               \* what the database holds (committed)
    sess,             \* what the worker's session holds (db plus pending changes)
    pc,               \* where the worker is: "idle", "cat", "rsync", "walk", "ret"
    ci,               \* index of the host category of the loop of per_host
    di,               \* index of the directory of the inner loop
    categoryUrl,      \* the URL chosen for the category
    try_later_delay,  \* the back-off delay of the walker
    host_category_dirs, \* the verdict map: <<hc.id, name>> -> verdict
    rc,               \* rc of per_host
    exit,             \* what the last worker returned (-1: none yet)
    crawls,           \* the worker invocations so far
    \* what happened in the current (or last) crawl
    start,            \* db when the worker started
    commits,          \* session.commit() calls that returned
    marks,            \* mark_not_up2date calls
    deadline,         \* timeout_check raised TimeoutException
    escaped,          \* another exception reached the worker
    unhandled,        \* the walker caught an unhandled probe exception
    skipped,          \* per_host returned at once: private host
    sync,             \* what sync_hcds did
    observed,         \* keys recorded true with every expected file observed
    recorded,         \* the key the latest step recorded true, or NoKey
    previous,         \* the verdict map of the last sync_hcds that committed
                      \* in an earlier crawl
    hs,               \* a hostState object: its pools and its flag
    probe             \* a call of one function of the crawler: its arguments
                      \* and what it returned

catalog == << directory, hostcats, private >>
control == << pc, ci, di, categoryUrl, try_later_delay, rc, exit, crawls >>
history == << start, commits, marks, deadline, escaped, unhandled, skipped,
              sync, observed, recorded, previous >>
crawl == << catalog, db, sess, control, host_category_dirs, history >>
vars == << crawl, hs, probe >>

\* options.include_private
include_private == FALSE

\* hostState.__init__: both pools empty, keepalives_available False; op is
\* the method called last, reusable whether a response was deemed reusable,
\* answer what keepalive_ok said of the response of the latest check_head
hostState ==
    [httpconn |-> {}, ftpconn |-> {}, keepalives_available |-> FALSE,
     op |-> "__init__", reusable |-> FALSE, answer |-> "none"]

\* no function was called
NoCall == [op |-> "none"]

NoSync == [ran |-> FALSE, ok |-> FALSE, hcds |-> << >>, stats |-> Stats0,
           current |-> {}, created |-> {}, exc |-> ""]

Host(lastCrawled, not_up2date, hcds) ==
    [lastCrawled |-> lastCrawled, not_up2date |-> not_up2date, hcds |-> hcds]

Init ==
    /\ directory \in DirectoryTables
    /\ hostcats \in HostCategoryLists
    /\ private \in BOOLEAN
    /\ \E t \in HcdTables : db = Host(0, FALSE, t)
    \* a private host is skipped whatever the catalog holds: one catalog
    /\ private => /\ hostcats = << >>
                  /\ Len(db.hcds) = 2
                  /\ db.hcds[2].path = <<"a", "x">>
                  /\ directory[DirA].hasfiles /\ directory[DirX].readable
    /\ sess = db
    /\ pc = "idle"
    /\ ci = 1
    /\ di = 1
    /\ categoryUrl = NoUrl
    /\ try_later_delay = 1
    /\ host_category_dirs = << >>
    /\ rc = 0
    /\ exit = -1
    /\ crawls = 0
    /\ start = db
    /\ commits = 0
    /\ marks = 0
    /\ deadline = FALSE
    /\ escaped = FALSE
    /\ unhandled = FALSE
    /\ skipped = FALSE
    /\ sync = NoSync
    /\ observed = {}
    /\ recorded = NoKey
    /\ previous = [valid |-> FALSE, map |-> << >>]
    /\ hs = hostState
    /\ probe = NoCall

\* datetime.datetime.utcnow(), as the number of the crawl
now == crawls

\* mark_not_up2date(session, config, exc, host, reason): host.set_not_up2date
\* and the stamp are changes of the session
mark_not_up2date(s, utcnow) ==
    [s EXCEPT !.not_up2date = TRUE, !.lastCrawled = utcnow]

\* list(hc.directories): the rows of the host category, as the session holds
\* them
trydirs(hc) == SelectSeq(sess.hcds, LAMBDA h : h.host_category_id = hc.id)

\* worker with "except Exception" before "except TimeoutException": the
\* first clause takes every exception
Raise_first_clause(code, s, sy) ==
    /\ pc' = "idle"
    /\ sess' = s
    /\ sync' = sy
    /\ exit' = 3
    /\ deadline' = (code = 2)
    /\ escaped' = (code = 3)
    /\ recorded' = NoKey
    /\ UNCHANGED << catalog, db, ci, di, categoryUrl, try_later_delay, rc, crawls,
                    host_category_dirs, start, commits, marks, unhandled,
                    skipped, observed, previous >>

\* an exception reaches worker: "except TimeoutException: rc = 2" and
\* "except Exception: rc = 3"; nothing is committed
Raise(code, s, sy) ==
    /\ pc' = "idle"
    /\ sess' = s
    /\ sync' = sy
    /\ exit' = code
    /\ deadline' = (code = 2)
    /\ escaped' = (code = 3)
    /\ recorded' = NoKey
    /\ UNCHANGED << catalog, db, ci, di, categoryUrl, try_later_delay, rc, crawls,
                    host_category_dirs, start, commits, marks, unhandled,
                    skipped, observed, previous >>

\* ------------------------------------------------------------------ actions
\* worker() up to the first category of per_host: the start time, the
\* session, and the early returns of per_host
WorkerStart ==
    /\ pc = "idle"
    /\ UNCHANGED << hs, probe >>
    /\ crawls < MaxCrawls
    /\ crawls' = crawls + 1
    /\ start' = db
    /\ host_category_dirs' = << >>
    /\ commits' = 0
    /\ deadline' = FALSE
    /\ escaped' = FALSE
    /\ unhandled' = FALSE
    /\ sync' = NoSync
    /\ observed' = {}
    /\ recorded' = NoKey
    /\ ci' = 1
    /\ di' = 1
    /\ categoryUrl' = NoUrl
    /\ try_later_delay' = 1
    /\ previous' = IF sync.ok THEN [valid |-> TRUE, map |-> host_category_dirs]
                   ELSE previous
    /\ IF private /\ ~include_private
       THEN /\ rc' = 1
            /\ skipped' = TRUE
            /\ marks' = 0
            /\ sess' = db
            /\ pc' = "ret"
       ELSE IF Len(hostcats) = 0
       THEN /\ rc' = 1
            /\ skipped' = FALSE
            /\ marks' = 1
            /\ sess' = mark_not_up2date(db, crawls + 1)
            /\ pc' = "ret"
       ELSE /\ rc' = 0
            /\ skipped' = FALSE
            /\ marks' = 0
            /\ sess' = db
            /\ pc' = "cat"
    /\ UNCHANGED << catalog, db, exit >>

\* a loop that takes the same host category again
same_category(i) == i

\* "for hc in host_categories_to_scan:" of per_host: the next element, at a
\* "continue", a "break" of the inner loop or the end of the body
next_category(i) == i + 1

\* "if has_all_files == True: continue": a failed rsync probe goes on to the
\* walker
is_definitive_true_only(has_all_files) == has_all_files = True

\* "if type(has_all_files) == type(True): continue" of per_host
is_definitive(has_all_files) == has_all_files \in {True, False}

\* the head of the loop over the host categories: skip the category, start
\* the rsync probe (try_per_category up to its loop), or go to the walker
Category ==
    /\ pc = "cat"
    /\ UNCHANGED << hs, probe >>
    /\ ci <= Len(hostcats)
    /\ LET hc == hostcats[ci]
           url == method_pref(hc.urls, NoUrl)
       IN  IF hc.always_up2date \/ url = NoUrl
           THEN /\ ci' = next_category(ci)
                /\ UNCHANGED << pc, di, categoryUrl, try_later_delay >>
           ELSE
           \E run \in RsyncRuns :
               \* what try_per_category returns before its loop, or "loop"
               LET has_all_files ==
                       IF url.scheme # "rsync" THEN None
                       ELSE IF run.raised \/ run.result = 10 \/ run.empty
                       THEN False
                       ELSE "loop"
               IN  IF has_all_files = "loop"
                   THEN /\ pc' = "rsync"
                        /\ di' = 1
                        /\ categoryUrl' = url
                        /\ UNCHANGED << ci, try_later_delay >>
                   ELSE IF is_definitive(has_all_files)
                   THEN \* "continue": the next category
                        /\ ci' = next_category(ci)
                        /\ categoryUrl' = url
                        /\ UNCHANGED << pc, di, try_later_delay >>
                   ELSE /\ categoryUrl' = method_pref(hc.urls, url)
                        /\ try_later_delay' = 1
                        /\ pc' = "walk"
                        /\ di' = 1
                        /\ UNCHANGED ci
    /\ recorded' = NoKey
    /\ UNCHANGED << catalog, db, sess, rc, exit, crawls, host_category_dirs,
                    start, commits, marks, deadline, escaped, unhandled,
                    skipped, sync, observed, previous >>

\* every expected file of the rsync listing is there with its size, or is a
\* symbolic link
RsyncObserved(rsync, d, name) ==
    \A i \in 1..Len(d.files) :
        LET key == name \o <<d.files[i].name>>
        IN  /\ key \in DOMAIN rsync
            /\ rsync[key].size = d.files[i].size \/ rsync[key].mode = "l"

\* one directory of the loop of try_per_category
RsyncDir ==
    /\ pc = "rsync"
    /\ UNCHANGED << hs, probe >>
    /\ di <= Len(trydirs(hostcats[ci]))
    /\ LET hc == hostcats[ci]
           row == trydirs(hc)[di]
           key == <<hc.id, row.directory>>
       IN  \E delta \in Clock :
           IF timeout_check(delta) THEN Raise(2, sess, sync)
           ELSE IF row.directory = NoDir THEN Raise(3, sess, sync)    \* None.readable
           ELSE
           LET d == directory[row.directory]
               name == path(hc.topdir, row.directory)
           IN  IF ~d.readable
               THEN /\ host_category_dirs' = Put(host_category_dirs, key, None)
                    /\ di' = di + 1
                    /\ recorded' = NoKey
                    /\ UNCHANGED << catalog, db, sess, pc, ci, categoryUrl,
                                    try_later_delay, rc, exit, crawls, start,
                                    commits, marks, deadline, escaped, unhandled,
                                    skipped, sync, observed, previous >>
               ELSE IF ~d.hasfiles THEN Raise(3, sess, sync)           \* None.keys()
               ELSE
               \E listing \in RsyncListings(d, name) :
                   LET rsync == rsync_dict(listing, << >>)
                       verdict == IF all_files(rsync, d, name) THEN True ELSE False
                   IN  \* a directory met before in this listing gets the
                       \* verdict it got
                       /\ (\E j \in 1..(di - 1) : trydirs(hc)[j].directory = row.directory)
                              => host_category_dirs[key] = verdict
                       /\ host_category_dirs' =
                              IF verdict = True
                              THEN add_parents(directory,
                                       Put(host_category_dirs, key, True),
                                       hc, row.directory)
                              ELSE Put(host_category_dirs, key, False)
                       /\ observed' =
                              IF verdict = True /\ RsyncObserved(rsync, d, name)
                              THEN observed \cup {key} ELSE observed \ {key}
                       /\ recorded' = IF verdict = True THEN key ELSE NoKey
                       /\ di' = di + 1
                       /\ UNCHANGED << catalog, db, sess, pc, ci, categoryUrl,
                                       try_later_delay, rc, exit, crawls, start,
                                       commits, marks, deadline, escaped,
                                       unhandled, skipped, sync, previous >>

\* the test of the map for a key of the host category hc only
found_in_category(m, hc) == \E k \in DOMAIN m : k[1] = hc.id

\* "if len(host_category_dirs) > 0: return True" of try_per_category: the map
\* is the one of the whole host
found_any(m, hc) == Cardinality(DOMAIN m) > 0

\* the end of try_per_category, after its loop
RsyncEnd ==
    /\ pc = "rsync"
    /\ UNCHANGED << hs, probe >>
    /\ di > Len(trydirs(hostcats[ci]))
    /\ IF found_any(host_category_dirs, hostcats[ci])
       THEN UNCHANGED << sess, marks >>
       ELSE /\ sess' = mark_not_up2date(sess, now)
            /\ marks' = marks + 1
    /\ pc' = "cat"
    /\ ci' = next_category(ci)
    /\ recorded' = NoKey
    /\ UNCHANGED << catalog, db, di, categoryUrl, try_later_delay, rc, exit,
                    crawls, host_category_dirs, start, commits, deadline,
                    escaped, unhandled, skipped, sync, observed, previous >>

\* the doubling without its test "if try_later_delay < 8"
backoff_uncapped(delay) == delay * 2

\* "if try_later_delay < 8: try_later_delay = try_later_delay << 1"
backoff(delay) == IF delay < 8 THEN delay * 2 ELSE delay

\* every expected file was seen by the probe that said True: the FTP listing
\* has it with its size, or its HEAD (the last of a chain of redirects) was
\* answered 2xx with its size or without Content-Length, or the FTP server a
\* redirect led to lists it alone with its size
FtpObserved(d, replies) ==
    LET listing == get_ftp_dir(replies, d.readable, 0)
    IN  /\ listing.exc = ""
        /\ \A i \in 1..Len(d.files) :
              \E l \in 1..Len(listing.lines) :
                  /\ Len(listing.lines[l]) >= 9
                  /\ listing.lines[l][9] = d.files[i].name
                  /\ listing.lines[l][5] = d.files[i].size

HttpObserved(d, answers) ==
    \A i \in 1..Len(d.files) :
        LET last == answers[i].http[Len(answers[i].http)]
        IN  \/ /\ last.status = 200
               /\ last.clen \in {-1, d.files[i].size}
            \/ /\ last.status = 301
               /\ last.location = "ftp"
               /\ Head(answers[i].ftp).code = 226
               /\ Head(answers[i].ftp).lines[1][5] = d.files[i].size

\* one directory of the walker's loop in per_host
WalkDir ==
    /\ pc = "walk"
    /\ UNCHANGED << hs, probe >>
    /\ di <= Len(trydirs(hostcats[ci]))
    /\ LET hc == hostcats[ci]
           row == trydirs(hc)[di]
           key == <<hc.id, row.directory>>
       IN  \E delta \in Clock :
           IF timeout_check(delta) THEN Raise(2, sess, sync)
           ELSE IF row.directory = NoDir THEN Raise(3, sess, sync)    \* None.readable
           ELSE
           LET d == directory[row.directory]
               scheme == categoryUrl.scheme
           IN  IF ~d.readable
               THEN /\ di' = di + 1
                    /\ recorded' = NoKey
                    /\ UNCHANGED << catalog, db, sess, pc, ci, categoryUrl,
                                    try_later_delay, rc, exit, crawls,
                                    host_category_dirs, start, commits, marks,
                                    deadline, escaped, unhandled, skipped, sync,
                                    observed, previous >>
               ELSE
               \E replies \in IF scheme = "ftp" /\ d.hasfiles
                              THEN FtpScripts(d) ELSE { << >> },
                  answers \in IF scheme = "http" /\ d.hasfiles
                              THEN DirAnswers(d.files) ELSE { << >> } :
                   LET per_dir == try_per_dir(d, scheme, replies)
                       has_all_files == IF per_dir = None
                                        THEN try_per_file(d, scheme, answers)
                                        ELSE per_dir
                   IN  /\ CASE has_all_files = False ->
                                /\ host_category_dirs' = Put(host_category_dirs, key, False)
                                /\ observed' = observed \ {key}
                                /\ recorded' = NoKey
                                /\ di' = di + 1
                                /\ UNCHANGED << pc, ci, try_later_delay, rc, sess,
                                                marks, unhandled >>
                            [] has_all_files = True ->
                                /\ host_category_dirs' =
                                       add_parents(directory,
                                           Put(host_category_dirs, key, True),
                                           hc, row.directory)
                                /\ observed' =
                                       IF \/ per_dir = True /\ FtpObserved(d, replies)
                                          \/ per_dir = None /\ HttpObserved(d, answers)
                                       THEN observed \cup {key} ELSE observed \ {key}
                                /\ recorded' = key
                                /\ di' = di + 1
                                /\ UNCHANGED << pc, ci, try_later_delay, rc, sess,
                                                marks, unhandled >>
                            [] has_all_files = None ->
                                /\ di' = di + 1
                                /\ recorded' = NoKey
                                /\ UNCHANGED << pc, ci, try_later_delay, rc, sess,
                                                marks, unhandled,
                                                host_category_dirs, observed >>
                            [] has_all_files = "TryLater" ->
                                \* time.sleep(try_later_delay), and the for
                                \* loop goes on
                                /\ try_later_delay' = backoff(try_later_delay)
                                /\ di' = di + 1
                                /\ recorded' = NoKey
                                /\ UNCHANGED << pc, ci, rc, sess, marks, unhandled,
                                                host_category_dirs, observed >>
                            [] OTHER ->
                                \* except: mark_not_up2date, rc = 1, break
                                /\ sess' = mark_not_up2date(sess, now)
                                /\ marks' = marks + 1
                                /\ rc' = 1
                                /\ unhandled' = TRUE
                                /\ pc' = "cat"
                                /\ ci' = next_category(ci)
                                /\ recorded' = NoKey
                                /\ UNCHANGED << di, try_later_delay,
                                                host_category_dirs, observed >>
                       /\ UNCHANGED << catalog, db, categoryUrl, exit, crawls,
                                       start, commits, deadline, escaped, skipped,
                                       sync, previous >>

\* the walker's loop is over: the next category
WalkEnd ==
    /\ pc = "walk"
    /\ UNCHANGED << hs, probe >>
    /\ di > Len(trydirs(hostcats[ci]))
    /\ pc' = "cat"
    /\ ci' = next_category(ci)
    /\ recorded' = NoKey
    /\ UNCHANGED << catalog, db, sess, di, categoryUrl, try_later_delay, rc, exit,
                    crawls, host_category_dirs, start, commits, marks, deadline,
                    escaped, unhandled, skipped, sync, observed, previous >>

\* the end of per_host without "if rc == 0:"
should_sync_any_rc(r, m) == Cardinality(DOMAIN m) > 0

\* the end of per_host without "if len(host_category_dirs) > 0:"
should_sync_empty(r, m) == r = 0

\* "if rc == 0: if len(host_category_dirs) > 0:" at the end of per_host
should_sync(r, m) == r = 0 /\ Cardinality(DOMAIN m) > 0

\* the end of per_host: hoststate.close(), and sync_hcds with its commit when
\* rc == 0 and there is a verdict
PerHostEnd ==
    /\ pc = "cat"
    /\ UNCHANGED << hs, probe >>
    /\ ci > Len(hostcats)
    /\ IF should_sync(rc, host_category_dirs)
       THEN LET r == sync_hcds(sess.hcds, directory, hostcats, host_category_dirs)
                stamped == [sess EXCEPT !.lastCrawled = now]
                done == [stamped EXCEPT !.hcds = r.hcds]
            IN  IF r.exc # ""
                THEN Raise(3, stamped, [r EXCEPT !.ran = TRUE])
                ELSE \E committed \in BOOLEAN :
                        IF committed
                        THEN /\ sync' = [r EXCEPT !.ran = TRUE, !.ok = TRUE]
                             /\ sess' = done
                             /\ db' = done
                             /\ commits' = commits + 1
                             /\ pc' = "ret"
                             /\ recorded' = NoKey
                             /\ UNCHANGED << catalog, ci, di, categoryUrl,
                                             try_later_delay, rc, exit, crawls,
                                             host_category_dirs, start, marks,
                                             deadline, escaped, unhandled, skipped,
                                             observed, previous >>
                        ELSE Raise(3, done, [r EXCEPT !.ran = TRUE])
       ELSE /\ pc' = "ret"
            /\ recorded' = NoKey
            /\ UNCHANGED << catalog, db, sess, ci, di, categoryUrl,
                            try_later_delay, rc, exit, crawls, host_category_dirs,
                            start, commits, marks, deadline, escaped, unhandled,
                            skipped, sync, observed, previous >>

\* worker() after per_host returned: session.commit(), session.close(), and
\* the exit code
WorkerReturn ==
    /\ pc = "ret"
    /\ UNCHANGED << hs, probe >>
    /\ \E committed \in BOOLEAN :
          IF committed
          THEN /\ db' = sess
               /\ commits' = commits + 1
               /\ exit' = rc
               /\ pc' = "idle"
               /\ recorded' = NoKey
               /\ UNCHANGED << catalog, sess, ci, di, categoryUrl, try_later_delay,
                               rc, crawls, host_category_dirs, start, marks,
                               deadline, escaped, unhandled, skipped, sync,
                               observed, previous >>
          ELSE Raise(3, sess, sync)

Next ==
    \/ WorkerStart
    \/ Category
    \/ RsyncDir
    \/ RsyncEnd
    \/ WalkDir
    \/ WalkEnd
    \/ PerHostEnd
    \/ WorkerReturn

Spec == Init /\ [][Next]_vars

\* the worker invocations of LiveSpec
MaxLiveCrawls == 1

\* the steps of the first MaxLiveCrawls crawls of the host
LiveNext ==
    \/ WorkerStart /\ crawls' <= MaxLiveCrawls
    \/ Category
    \/ RsyncDir
    \/ RsyncEnd
    \/ WalkDir
    \/ WalkEnd
    \/ PerHostEnd
    \/ WorkerReturn

\* PerHostEnd as far as the position of the worker goes: per_host is left,
\* by its return or by an exception of sync_hcds
PerHostLeaves ==
    /\ pc = "cat"
    /\ ci > Len(hostcats)
    /\ pc' \in {"ret", "idle"}

\* worker runs in a thread of its own that is scheduled as long as it has a
\* step to take, and every probe, sleep and database call returns
LiveSpec ==
    /\ Init
    /\ [][LiveNext]_vars
    /\ WF_vars(WorkerStart)
    /\ WF_vars(Category)
    /\ WF_vars(RsyncDir)
    /\ WF_vars(RsyncEnd)
    /\ WF_vars(WalkDir)
    /\ WF_vars(WalkEnd)
    /\ WF_pc(PerHostLeaves)
    /\ WF_vars(WorkerReturn)

\* ========================================================= calls of functions
\* The specification ProbeSpec calls one function of the crawler with
\* arguments drawn from bounded sets and keeps what it returned in probe; the
\* crawl does not move.
ProbeInit == Init /\ private

\* ------------------------------------------------ the delay of the walker
\* directories per category in a call of the walker's loops
MaxDirs == 5

RECURSIVE walk_sleeps(_, _)
\* the loop "for d in trydirs" of per_host as far as the delay goes:
\* outcomes[i] says whether the probe of directory i raised TryLater, the
\* result is the sequence of the time.sleep(try_later_delay) durations,
\* delay the try_later_delay the loop starts with
walk_sleeps(outcomes, delay) ==
    IF outcomes = << >> THEN << >>
    ELSE IF Head(outcomes)
    THEN <<delay>> \o walk_sleeps(Tail(outcomes), backoff(delay))
    ELSE walk_sleeps(Tail(outcomes), delay)

RECURSIVE host_sleeps(_)
\* the loop "for hc in host_categories_to_scan" of per_host as far as the
\* delay goes: "try_later_delay = 1" before the walk of each category
host_sleeps(categories) ==
    IF categories = << >> THEN << >>
    ELSE <<walk_sleeps(Head(categories), 1)>> \o host_sleeps(Tail(categories))

\* what the probes of the directories of one category may do
WalkOutcomes == UNION { [1..n -> BOOLEAN] : n \in 0..MaxDirs }

CallWalker ==
    /\ probe = NoCall
    /\ \E c1 \in WalkOutcomes, c2 \in WalkOutcomes, two \in BOOLEAN :
          LET categories == IF two THEN <<c1, c2>> ELSE <<c1>>
          IN  (two \/ c2 = << >>)
              /\ probe' = [op |-> "per_host", categories |-> categories,
                           sleeps |-> host_sleeps(categories)]
    /\ UNCHANGED << crawl, hs >>

\* --------------------------------------------------- a chain of redirects
\* consecutive 3xx responses to the HEADs for one expected file
MaxRedirects == 13

\* the responses to the successive HEADs: n redirects to an http URL, then
\* the response last
RedirectChain(n, last) ==
    [i \in 1..(n + 1) |-> IF i <= n THEN Response(301, -1, "http") ELSE last]

\* check_url(hoststate, graburl, d.files[filename], 0, d.readable) for the
\* one expected file of a directory, and try_per_file of that directory
CallCheckUrl ==
    /\ probe = NoCall
    /\ \E n \in 0..MaxRedirects,
          last \in { Response(200, 1, "None"), Response(200, 2, "None"),
                     Response(200, -1, "None"), Response(404, -1, "None"),
                     Response(401, -1, "None"), Response(503, -1, "None"),
                     Response(302, -1, "http"), Response(301, -1, "ftp") } :
          LET f == [name |-> "g", size |-> 1]
              x == Answers(RedirectChain(n, last), <<Reply(421, << >>)>>, "Error")
          IN  probe' = [op |-> "check_url", redirects |-> n, last |-> last,
                        out |-> check_url("http", x, f, 0, TRUE),
                        verdict |-> try_per_file(Dir(TRUE, TRUE, <<f>>),
                                                 "http", <<x>>)]
    /\ UNCHANGED << crawl, hs >>

\* ------------------------------------------------------------- method_pref
\* the URLs of a host category: the i-th URL of a list is [scheme, id |-> i];
\* "https" is a URL that starts with none of "rsync:", "http:", "ftp:"
UrlLists ==
    UNION { { [i \in 1..n |-> [scheme |-> f[i], id |-> i]] :
              f \in [1..n -> {"rsync", "http", "ftp", "https"}] } : n \in 0..3 }

\* method_pref(urls, prev): prev is "" (NoUrl) or a URL
CallMethodPref ==
    /\ probe = NoCall
    /\ \E urls \in UrlLists,
          prev \in {NoUrl} \cup { [scheme |-> s, id |-> 1] :
                                     s \in {"rsync", "http", "ftp"} } :
          probe' = [op |-> "method_pref", urls |-> urls, prev |-> prev,
                    out |-> method_pref(urls, prev)]
    /\ UNCHANGED << crawl, hs >>

\* ------------------------------------------------ a call of get_ftp_dir
MaxReplies == 3

\* one raw line of a listing, its fifth field the size
ListingLine(size) == <<"-rw-r--r--", "1", "ftp", "ftp", size>>

FtpReplies ==
    { Reply(226, <<ListingLine(n)>>) : n \in 1..2 }
        \cup { Reply(c, << >>) : c \in {0, 530, 550, 553, 500, 502, 450, 421, 425} }

\* get_ftp_dir(hoststate, url, readable) with i = 0, for every sequence of
\* answers of the server to the LISTs
CallGetFtpDir ==
    /\ probe = NoCall
    /\ \E n \in 0..MaxReplies :
       \E replies \in [1..n -> FtpReplies], readable \in BOOLEAN :
            probe' = [op |-> "get_ftp_dir", replies |-> replies,
                      readable |-> readable,
                      out |-> get_ftp_dir(replies, readable, 0)]
    /\ UNCHANGED << crawl, hs >>

\* ------------------------------- a call of select_host_categories_to_scan
\* The values a list of Python holds, with their type: a HostCategory object
\* (items is the one record) or a list of HostCategory objects.
Object(hc) == [type |-> "HostCategory", items |-> <<hc>>]
List(hcs) == [type |-> "list", items |-> hcs]

\* mirrormanager2.lib.get_host_category_by_hostid_category(session, host_id,
\* category): the HostCategory records of the host with that category name
get_host_category_by_hostid_category(categories, category) ==
    SelectSeq(categories, LAMBDA hc : hc.category = category)

RECURSIVE Objects(_)
\* list(host.categories)
Objects(categories) ==
    IF categories = << >> THEN << >>
    ELSE <<Object(Head(categories))>> \o Objects(Tail(categories))

RECURSIVE select_host_categories_to_scan(_, _)
\* select_host_categories_to_scan(session, options, host), options.categories
\* not empty: "for entry in hc: result.append(hc)" appends the list hc once
\* for each of its entries
select_host_categories_to_scan(options_categories, categories) ==
    IF options_categories = << >> THEN << >>
    ELSE LET hc == get_host_category_by_hostid_category(
                       categories, Head(options_categories))
         IN  [entry \in 1..Len(hc) |-> List(hc)]
                 \o select_host_categories_to_scan(Tail(options_categories),
                                                   categories)

\* host_categories_to_scan of per_host
host_categories_to_scan(options_categories, categories) ==
    IF options_categories # << >>
    THEN select_host_categories_to_scan(options_categories, categories)
    ELSE Objects(categories)

\* per_host from the selection on: no host category leaves it with
\* mark_not_up2date and "return 1"; "for hc in host_categories_to_scan: if
\* hc.always_up2date" raises AttributeError for a list
scan(selected) ==
    IF Len(selected) = 0 THEN "return 1"
    ELSE IF selected[1].type # "HostCategory" THEN "AttributeError"
    ELSE "scan"

MaxCategories == 2
CategoryNames == {"Fedora Linux", "Fedora EPEL"}

\* host.categories: a host may have several HostCategory records
HostCategories ==
    UNION { { [i \in 1..n |-> [id |-> i, category |-> f[i]]]
              : f \in [1..n -> CategoryNames] } : n \in 0..MaxCategories }

\* options.categories: the names given with --category
OptionsCategories ==
    UNION { [1..n -> CategoryNames \cup {"Fedora Other"}] : n \in 0..2 }

CallSelect ==
    /\ probe = NoCall
    /\ \E categories \in HostCategories, options_categories \in OptionsCategories :
          LET out == host_categories_to_scan(options_categories, categories)
          IN  probe' = [op |-> "select_host_categories_to_scan",
                        categories |-> categories,
                        options_categories |-> options_categories,
                        out |-> out, per_host |-> scan(out)]
    /\ UNCHANGED << crawl, hs >>

\* ---------------------- the probes of a directory with no expected files
\* try_per_dir(d, hoststate, url) under an ftp URL and try_per_file(d,
\* hoststate, url) under an http URL, for a directory whose d.files is None
\* (hasfiles = FALSE) or an empty dict
CallEmptyFiles ==
    /\ probe = NoCall
    /\ \E n \in 0..MaxReplies :
       \E replies \in [1..n -> FtpReplies], readable, hasfiles \in BOOLEAN :
            LET d == Dir(readable, hasfiles, << >>)
            IN  probe' = [op |-> "try_per_dir", d |-> d, replies |-> replies,
                          dir |-> try_per_dir(d, "ftp", replies),
                          file |-> try_per_file(d, "http", << >>)]
    /\ UNCHANGED << crawl, hs >>

\* ------------------------------------------------------------ a call of doit
MaxHosts == 2

\* the activation flags of a host and its site: all set, or one of them not
ActiveFlags ==
    { [admin_active |-> f[1], user_active |-> f[2],
       site_user_active |-> f[3], site_admin_active |-> f[4]]
      : f \in { <<TRUE, TRUE, TRUE, TRUE>>, <<FALSE, TRUE, TRUE, TRUE>>,
                <<TRUE, FALSE, TRUE, TRUE>>, <<TRUE, TRUE, FALSE, TRUE>>,
                <<TRUE, TRUE, TRUE, FALSE>> } }

\* the Host table: the host at index i has the id i
HostTables ==
    UNION { { [i \in 1..n |-> [id |-> i, private |-> p[i], site_private |-> s[i],
                               active |-> a[i]]]
              : p \in [1..n -> BOOLEAN], s \in [1..n -> BOOLEAN],
                a \in [1..n -> ActiveFlags] } : n \in 0..MaxHosts }

\* mirrormanager2.lib.get_mirrors(session, private): the hosts with that
\* value of private
get_mirrors(hosts, is_private) ==
    SelectSeq(hosts, LAMBDA host : host.private = is_private)

\* the filter of doit with the activation test as the code negates it
hosts_filter(host, startid, stopid) ==
    /\ ~(host.id < startid)
    /\ ~(host.id >= stopid)
    /\ ~(/\ host.active.admin_active
         /\ host.active.user_active
         /\ host.active.site_user_active
         /\ host.active.site_admin_active)
    /\ ~host.site_private

\* doit(options, config): the hosts threadpool.map calls worker for, one
\* call for each host the generator yields
doit(hosts, startid, stopid) ==
    SelectSeq(get_mirrors(hosts, FALSE),
              LAMBDA host : hosts_filter(host, startid, stopid))

CallDoit ==
    /\ probe = NoCall
    /\ \E hosts \in HostTables, startid \in {0, 2}, stopid \in {2, 3} :
          probe' = [op |-> "doit", hosts |-> hosts, startid |-> startid,
                    stopid |-> stopid, workers |-> doit(hosts, startid, stopid)]
    /\ UNCHANGED << crawl, hs >>

ProbeNext ==
    \/ CallWalker
    \/ CallCheckUrl
    \/ CallMethodPref
    \/ CallGetFtpDir
    \/ CallSelect
    \/ CallEmptyFiles
    \/ CallDoit

ProbeSpec == ProbeInit /\ [][ProbeNext]_vars

\* ================================================================= hostState
\* The specification HostStateSpec calls the methods of one hostState object
\* in any order, and check_head for one HEAD at a time; the crawl does not
\* move.
\* A URL is the list of its parts: "http://m1/x" is
\* <<"http", ":", "//", "m1", "/x">>, "http:///x" has no part for its empty
\* authority, and the key "m1" of a pool is the text <<"m1">>.
Paths == {"/x"}

UrlText(scheme, netloc, p) ==
    <<scheme, ":", "//">> \o (IF netloc = "" THEN << >> ELSE <<netloc>>) \o <<p>>

\* the text of a str that is a key of a pool
KeyText(netloc) == IF netloc = "" THEN << >> ELSE <<netloc>>

\* urlparse.urlsplit(url): the scheme is what stands before ":", the netloc
\* what stands between "//" and the path; a text without "//" has no netloc
urlsplit(url) ==
    LET hasScheme == Len(url) >= 2 /\ url[2] = ":"
        rest == IF hasScheme THEN SubSeq(url, 3, Len(url)) ELSE url
        hasNetloc == rest # << >> /\ rest[1] = "//"
        after == IF hasNetloc THEN Tail(rest) ELSE rest
        named == hasNetloc /\ after # << >> /\ after[1] \notin Paths
    IN  [scheme |-> IF hasScheme THEN url[1] ELSE "",
         netloc |-> IF named THEN after[1] ELSE "",
         path |-> IF named THEN Tail(after) ELSE after]

\* hostState.open_http(url)
open_http(h, url) == [h EXCEPT !.httpconn = @ \cup {urlsplit(url).netloc}]

\* hostState.ftp_dir(url) up to c.dir(): _open_ftp(netloc) pools the
\* connection before it logs in
ftp_dir(h, url) == [h EXCEPT !.ftpconn = @ \cup {urlsplit(url).netloc}]

\* hostState.close_http(url)
close_http(h, url) == [h EXCEPT !.httpconn = @ \ {urlsplit(url).netloc}]

\* hostState.close_ftp(url): an exception of quit() is passed over
close_ftp(h, url) == [h EXCEPT !.ftpconn = @ \ {urlsplit(url).netloc}]

RECURSIVE close_each(_, _, _)
\* "for c in self.httpconn.keys(): self.close_http(c)", and the same loop
\* for the FTP pool: the key itself is what the method gets as its url
close_each(h, keys, pool) ==
    IF keys = {} THEN h
    ELSE LET c == CHOOSE k \in keys : TRUE
         IN  close_each(IF pool = "http" THEN close_http(h, KeyText(c))
                        ELSE close_ftp(h, KeyText(c)),
                        keys \ {c}, pool)

\* hostState.close()
close(h) ==
    LET h1 == close_each(h, h.httpconn, "http")
    IN  close_each(h1, h1.ftpconn, "ftp")

\* the status line and the headers of a response that keepalive_ok reads:
\* version 10 or 11, the Connection and the Keep-Alive header ("None": no
\* such header)
Headers(version, connection, keep_alive) ==
    [version |-> version, connection |-> connection, keep_alive |-> keep_alive]

\* myHTTPResponse.keepalive_ok(): ka.index('max=') raises ValueError for a
\* Keep-Alive header without "max=", and the except clause returns False
keepalive_ok(r) ==
    IF r.version = 11 THEN r.connection # "close"
    ELSE IF r.connection = "keep-alive" THEN TRUE
    ELSE IF r.keep_alive = "None" THEN FALSE
    ELSE IF r.keep_alive = "timeout=5" THEN FALSE
    ELSE r.keep_alive # "max=1"

\* "hoststate.keepalives_available = r.keepalive_ok()": the flag follows the
\* latest response
keepalives_last(available, ok) == ok

\* "if keepalive_ok: hoststate.keepalives_available = True"
keepalives_after(available, ok) == IF ok THEN TRUE ELSE available

\* check_head as far as the hostState goes, for one HEAD: how is
\* "open_error" (open_http raised), "request_error" (conn.request raised, and
\* check_head with it), "no_response" (getresponse raised, with the retry the
\* call was made with) or "response" with the headers r
head(h, url, how, retry, r) ==
    LET h0 == [h EXCEPT !.answer = "none"]
    IN  IF how = "open_error" THEN h0
        ELSE IF how = "request_error" THEN open_http(h0, url)
        ELSE IF how = "no_response"
        THEN IF retry = 0 THEN close_http(open_http(h0, url), url)
             ELSE open_http(h0, url)
        ELSE LET h1 == open_http(h0, url)
                 ok == keepalive_ok(r)
                 h2 == [h1 EXCEPT
                          !.keepalives_available = keepalives_after(@, ok),
                          !.reusable = @ \/ ok,
                          !.answer = IF ok THEN "reusable"
                                     ELSE "not reusable"]
             IN  IF ok THEN h2 ELSE close_http(h2, url)

\* the URLs the methods are called with
HsUrls ==
    { UrlText(s, n, "/x") : s \in {"http", "ftp"}, n \in {"", "m1", "m2"} }

HsResponses ==
    { Headers(v, c, k) : v \in {10, 11}, c \in {"None", "close", "keep-alive"},
                         k \in {"None", "timeout=5", "max=1", "max=100"} }

\* the method op was called and took the hostState to h
Called(op, h) ==
    /\ hs' = [h EXCEPT !.op = op]
    /\ UNCHANGED << crawl, probe >>

OpenHttp == \E url \in HsUrls : Called("open_http", open_http(hs, url))

\* FTP(netloc) may raise before the connection is pooled
FtpDir ==
    \E url \in HsUrls, connected \in BOOLEAN :
        Called("ftp_dir", IF connected THEN ftp_dir(hs, url) ELSE hs)

CloseHttp == \E url \in HsUrls : Called("close_http", close_http(hs, url))

CloseFtp == \E url \in HsUrls : Called("close_ftp", close_ftp(hs, url))

Close == Called("close", close(hs))

CheckHead ==
    \E url \in HsUrls, retry \in {0, 1}, r \in HsResponses,
       how \in {"open_error", "request_error", "no_response", "response"} :
        /\ urlsplit(url).scheme = "http"
        /\ Called("check_head", head(hs, url, how, retry, r))

HostStateNext ==
    \/ OpenHttp
    \/ FtpDir
    \/ CloseHttp
    \/ CloseFtp
    \/ Close
    \/ CheckHead

HostStateSpec == ProbeInit /\ [][HostStateNext]_vars

\* ===================================================================== claims
\* the rows of the table hcds that sync_hcds looks up for the key k
RowsOf(hcds, k) ==
    get_hostcategorydir_by_hostcategoryid_and_path(
        hcds, k[1], path(hostcats[k[1]].topdir, k[2]))

\* the lengths n of the prefixes of name d that add_parents can reach from d:
\* every directory from the prefix down to the parent of d is in the catalog,
\* and the prefix is not above the topdir of hc
Ancestors(hc, d) ==
    { n \in Len(hc.topdir)..(Len(d) - 1) :
        \A j \in n..(Len(d) - 1) : SubSeq(d, 1, j) \in DOMAIN directory }

\* a crawl is over and worker returned the code
Returned(code) == pc = "idle" /\ crawls > 0 /\ exit = code

\* ------------------------------------------------------------------------ C1
\* C1: true-verdict soundness. Every key the verdict map holds with the
\* verdict true was recorded by a probe (rsync listing, FTP listing, HTTP
\* HEADs) that observed every expected file of the directory on the mirror:
\* at its size, or for HTTP answered 2xx without Content-Length, or for rsync
\* as a symbolic link. A directory with a HEAD classified unknown is never true.
C1_TrueVerdictObserved ==
    \A k \in DOMAIN host_category_dirs :
        host_category_dirs[k] = True => k \in observed

\* ------------------------------------------------------------------------ C2
\* C2, as stated: when a probe records (hc, d) -> true, every ancestor of d
\* below the topdir of the category is in the verdict map with the verdict
\* true unless it had a verdict before, which it keeps; the topdir itself is
\* not added.
C2_AncestorsTrueTopdirExcluded ==
    [][recorded' # NoKey =>
        LET hc == hostcats[recorded'[1]]
            d == recorded'[2]
            top == <<hc.id, hc.topdir>>
        IN  /\ \A n \in Ancestors(hc, d) \ {Len(hc.topdir)} :
                  LET a == <<hc.id, SubSeq(d, 1, n)>>
                  IN  /\ a \in DOMAIN host_category_dirs'
                      /\ host_category_dirs'[a] =
                            IF a \in DOMAIN host_category_dirs
                            THEN host_category_dirs[a] ELSE True
            /\ (d # hc.topdir /\ top \notin DOMAIN host_category_dirs)
                  => top \notin DOMAIN host_category_dirs']_vars

\* C2, amended: when a probe records (hc, d) -> true, every ancestor of d
\* that add_parents reaches, from the parent of d up to and including the
\* topdir of the category, is in the verdict map: with the verdict it had
\* before if it had one, and with the verdict null (not true) otherwise.
C2_AncestorsNullTopdirIncluded ==
    [][recorded' # NoKey =>
        LET hc == hostcats[recorded'[1]]
            d == recorded'[2]
        IN  /\ host_category_dirs'[recorded'] = True
            /\ \A n \in Ancestors(hc, d) :
                  LET a == <<hc.id, SubSeq(d, 1, n)>>
                  IN  /\ a \in DOMAIN host_category_dirs'
                      /\ host_category_dirs'[a] =
                            IF a \in DOMAIN host_category_dirs
                            THEN host_category_dirs[a] ELSE None]_vars

\* (hc1, pub/f/a/x) was just recorded true: its parent pub/f/a keeps the
\* verdict false it had, and the topdir pub/f was added with the verdict null
C2_Witness ==
    /\ recorded = <<1, DirX>>
    /\ <<1, DirA>> \in DOMAIN host_category_dirs
    /\ host_category_dirs[<<1, DirA>>] = False
    /\ <<1, TopF>> \in DOMAIN host_category_dirs
    /\ host_category_dirs[<<1, TopF>>] = None

\* ------------------------------------------------------------------------ C3
\* C3: a null verdict writes nothing. After a crawl whose sync_hcds committed,
\* for every key (hc, d) of the verdict map with the verdict null and d
\* readable, every row the table had for (hc, path(d)) before the crawl has
\* the up2date it had before the crawl.
C3_NullVerdictRowUntouched ==
    sync.ok =>
        \A k \in DOMAIN host_category_dirs :
            (host_category_dirs[k] = None /\ directory[k[2]].readable) =>
                \A i \in RowsOf(start.hcds, k) :
                    db.hcds[i].up2date = start.hcds[i].up2date

\* ------------------------------------------------------------------------ C4
\* C4: sync_hcds constructs a row exactly for the keys with the verdict true
\* that have no row for (hc.id, path); the table of a host keeps every row it
\* had (no row is deleted), and every row it gained was constructed for a key
\* with the verdict true.
C4_RowsCreatedOnlyForTrue ==
    /\ sync.ran =>
          sync.created = { k \in DOMAIN host_category_dirs :
                              /\ host_category_dirs[k] = True
                              /\ RowsOf(start.hcds, k) = {} }
    /\ Len(db.hcds) >= Len(start.hcds)
    /\ \A i \in 1..Len(start.hcds) :
          /\ db.hcds[i].host_category_id = start.hcds[i].host_category_id
          /\ db.hcds[i].path = start.hcds[i].path
    /\ \A i \in (Len(start.hcds) + 1)..Len(db.hcds) :
          \E k \in sync.created :
              /\ host_category_dirs[k] = True
              /\ db.hcds[i] = HostCategoryDir(
                     k[1], path(hostcats[k[1]].topdir, k[2]), k[2], True)

\* a sync_hcds that committed constructed a row, and the table grew
C4_Witness ==
    /\ sync.ok
    /\ sync.created # {}
    /\ Len(db.hcds) > Len(start.hcds)

\* ------------------------------------------------------------------------ C5
\* C5: after a sync_hcds that committed, every row of the host whose
\* directory is null or readable and which the first loop did not put into
\* current_hcds has up2date false.
C5_NotCurrentIsFalse ==
    sync.ok =>
        \A i \in 1..Len(db.hcds) :
            ( /\ i \notin sync.current
              /\ \/ db.hcds[i].directory = NoDir
                 \/ directory[db.hcds[i].directory].readable )
            => db.hcds[i].up2date = False

\* a row without directory that was up2date before the crawl is not current
\* and was set to false
C5_Witness ==
    /\ sync.ok
    /\ \E i \in 1..Len(start.hcds) :
          /\ i \notin sync.current
          /\ start.hcds[i].directory = NoDir
          /\ start.hcds[i].up2date = True
          /\ db.hcds[i].up2date = False

\* ------------------------------------------------------------------------ C6
\* the crawl ran sync_hcds to its commit with the verdict map of the last
\* sync_hcds that committed before it
SecondRun == sync.ok /\ previous.valid /\ previous.map = host_category_dirs

C7_DeadlineNoCommit ==
    deadline =>
        /\ pc = "idle"
        /\ exit = 2
        /\ ~sync.ran
        /\ commits = 0
        /\ db = start

\* the deadline fired after verdicts were recorded and the host was marked in
\* the session
C7_Witness ==
    /\ deadline
    /\ marks > 0
    /\ sess.not_up2date /\ ~db.not_up2date
    /\ DOMAIN host_category_dirs # {}

\* ------------------------------------------------------------------------ C8
\* C8, as stated: after an unhandled exception in the walker's loop the host
\* is marked, rc is 1, sync_hcds is not run and the session is not committed
\* in that crawl.
C8_UnhandledNoCommit ==
    unhandled =>
        /\ sess.not_up2date
        /\ rc = 1
        /\ ~sync.ran
        /\ commits = 0

\* C8, amended: after an unhandled exception in the walker's loop the host is
\* marked, rc is 1, sync_hcds is not run and no row of the table changes;
\* worker commits the session once when per_host has returned 1, which makes
\* the mark and its lastCrawled persistent.
C8_UnhandledNoVerdictCommitted ==
    unhandled =>
        /\ sess.not_up2date
        /\ rc = 1
        /\ ~sync.ran
        /\ db.hcds = start.hcds
        /\ commits <= 1
        /\ pc = "idle" => exit \in {1, 2, 3}
        /\ Returned(1) => /\ commits = 1
                          /\ db.not_up2date
                          /\ db.lastCrawled = crawls

\* worker returned 1 after an unhandled exception, with a true verdict in the
\* verdict map and the one commit done
C8_Witness ==
    /\ unhandled
    /\ Returned(1)
    /\ commits = 1
    /\ \E k \in DOMAIN host_category_dirs : host_category_dirs[k] = True

\* ------------------------------------------------------------------------ C9
\* C9, as stated: a crawl that ends with exit code 0 and a verdict map that
\* is not empty committed the session exactly once.
C9_OneCommit ==
    (Returned(0) /\ DOMAIN host_category_dirs # {}) => commits = 1

\* C9, amended: no commit is issued before the loop over the categories is
\* over; a crawl that ends with exit code 0 and a verdict map that is not
\* empty committed the session exactly twice (in sync_hcds and in worker),
\* and one that ends with exit code 0 and an empty verdict map exactly once.
C9_TwoCommits ==
    /\ pc \in {"cat", "rsync", "walk"} => commits = 0
    /\ (Returned(0) /\ DOMAIN host_category_dirs # {}) => commits = 2
    /\ (Returned(0) /\ DOMAIN host_category_dirs = {}) => commits = 1

\* a crawl ended with exit code 0 after sync_hcds committed
C9_Witness ==
    /\ Returned(0)
    /\ DOMAIN host_category_dirs # {}
    /\ sync.ok
    /\ commits = 2

\* ----------------------------------------------------------------------- C10
\* C10: exit-code protocol. Worker returns one code of 0..3: 2 iff the
\* deadline fired, 3 iff another exception escaped per_host or the final
\* commit, 1 iff the host was skipped as private or was marked not
\* up-to-date, and 0 otherwise: never 0 when the host was marked.
C10_ExitCodeProtocol ==
    (pc = "idle" /\ crawls > 0) =>
        /\ exit \in 0..3
        /\ exit = 2 <=> deadline
        /\ exit = 3 <=> escaped
        /\ (~deadline /\ ~escaped) => (exit = 1 <=> (skipped \/ marks > 0))
        /\ exit = 0 => marks = 0

\* ----------------------------------------------------------------------- C11
\* C11: try-later retries the same directory. The walker's delay grows
\* exactly in the steps in which the probe of the directory at position di
\* raised try-later; after such a step the walker is still in the loop of the
\* category and the next directory it probes is the one at position di again.
C11_TryLaterRetriesSameDirectory ==
    [][(pc = "walk" /\ try_later_delay' > try_later_delay)
          => (pc' = "walk" /\ di' = di)]_vars

\* ----------------------------------------------------------------------- C12
RECURSIVE Flat(_)
\* the sequences of a sequence, one after the other
Flat(seqs) == IF seqs = << >> THEN << >> ELSE Head(seqs) \o Flat(Tail(seqs))

\* the sequence s starts at 1, each next element is the double of the one
\* before it up to 8 and 8 after 8
BacksOff(s) ==
    /\ s # << >> => s[1] = 1
    /\ \A i \in 1..Len(s) : s[i] <= 8
    /\ \A i \in 1..(Len(s) - 1) :
          /\ s[i] <= s[i + 1]
          /\ s[i + 1] = IF s[i] < 8 THEN 2 * s[i] ELSE 8

\* C12, as stated: over one host crawl the sleep durations of the successive
\* try-later signals start at 1, double (1, 2, 4, 8), never decrease and
\* never exceed 8, whatever the number of signals and of categories.
C12_DelayMonotoneOverCrawl ==
    probe.op = "per_host" => BacksOff(Flat(probe.sleeps))

\* C12, amended: within the walk of one category the sleep durations of the
\* successive try-later signals start at 1, double (1, 2, 4, 8), never
\* decrease and never exceed 8; the delay starts again at 1 with every
\* category.
C12_DelayMonotonePerCategory ==
    probe.op = "per_host" =>
        /\ Len(probe.sleeps) = Len(probe.categories)
        /\ \A c \in 1..Len(probe.sleeps) :
              /\ BacksOff(probe.sleeps[c])
              /\ Len(probe.sleeps[c]) =
                    Cardinality({ i \in 1..Len(probe.categories[c]) :
                                     probe.categories[c][i] })

\* five try-later signals in the first category and two in the second
C12_Witness ==
    /\ probe.op = "per_host"
    /\ probe.sleeps = << <<1, 2, 4, 8, 8>>, <<1, 2>> >>

\* ----------------------------------------------------------------------- C13
\* C13: redirect depth never exceeds 10. For one expected file, when the
\* HEADs are answered by 11 or more consecutive redirects, check_url raises
\* HTTPUnknown and the directory gets the verdict null: no verdict is derived
\* from what the target of the 11th redirect answers.
C13_RedirectDepthAtMost10 ==
    (probe.op = "check_url" /\ probe.redirects >= 11) =>
        /\ probe.out = "HTTPUnknown"
        /\ probe.verdict = None

\* ----------------------------------------------------------------------- C14
\* the first URL of the list urls with the scheme, NoUrl when there is none
First(urls, scheme) ==
    LET at == { i \in 1..Len(urls) : urls[i].scheme = scheme }
    IN  IF at = {} THEN NoUrl
        ELSE urls[CHOOSE i \in at : \A j \in at : i <= j]

\* the first http URL of the list, else the first ftp URL, else NoUrl
HttpThenFtp(urls) ==
    IF First(urls, "http") # NoUrl THEN First(urls, "http")
    ELSE First(urls, "ftp")

\* C14, as stated: method_pref(urls, prev) is null whenever prev is an rsync
\* URL; otherwise it is the first rsync URL of the list if there is one,
\* else the first http URL, else the first ftp URL, else null; it is null or
\* an element of urls.
C14_NullAfterRsync ==
    probe.op = "method_pref" =>
        /\ probe.out = IF probe.prev.scheme = "rsync" THEN NoUrl
                       ELSE IF First(probe.urls, "rsync") # NoUrl
                       THEN First(probe.urls, "rsync")
                       ELSE HttpThenFtp(probe.urls)
        /\ \/ probe.out = NoUrl
           \/ \E i \in 1..Len(probe.urls) : probe.urls[i] = probe.out

\* C14, amended: when prev is an rsync URL, method_pref(urls, prev) passes
\* over the rsync URLs and is the first http URL of the list, else the first
\* ftp URL, else null; otherwise it is the first rsync URL of the list if
\* there is one, else the first http URL, else the first ftp URL, else null;
\* it is null or an element of urls.
C14_FallbackAfterRsync ==
    probe.op = "method_pref" =>
        /\ probe.out = IF probe.prev.scheme # "rsync"
                          /\ First(probe.urls, "rsync") # NoUrl
                       THEN First(probe.urls, "rsync")
                       ELSE HttpThenFtp(probe.urls)
        /\ \/ probe.out = NoUrl
           \/ \E i \in 1..Len(probe.urls) : probe.urls[i] = probe.out

\* after an rsync URL, with an rsync URL first in the list and two ftp URLs
\* after it, the first ftp URL is picked
C14_Witness ==
    /\ probe.op = "method_pref"
    /\ probe.prev.scheme = "rsync"
    /\ Len(probe.urls) = 3
    /\ probe.urls[1].scheme = "rsync"
    /\ probe.urls[2].scheme = "ftp"
    /\ probe.urls[3].scheme = "ftp"
    /\ probe.out = probe.urls[2]

\* ----------------------------------------------------------------------- C15
\* C15: HTTP 5xx is fatal. When the HEAD of an expected file, directly or at
\* the end of a chain of redirects that is followed, is answered with a status
\* of 500 or more, check_url raises HTTP500 and the exception leaves
\* try_per_file for the walker's "except:" (which marks the host and sets
\* rc = 1): try_per_file does not return the verdict null.
C15_Http5xxLeavesProbe ==
    (probe.op = "check_url" /\ probe.last.status >= 500 /\ probe.redirects <= 10)
        => /\ probe.out = "HTTP500"
           /\ probe.verdict = "HTTP500"

\* ----------------------------------------------------------------------- C16
\* C16: hostState.close() releases every pooled connection. When close() has
\* returned, whatever connections open_http, ftp_dir and check_head pooled
\* before, both pools are empty.
C16_CloseEmptiesPools ==
    hs.op = "close" => (hs.httpconn = {} /\ hs.ftpconn = {})

\* ----------------------------------------------------------------------- C17
\* C17: keepalives_available is monotone. The flag of a hostState is false
\* until a response is deemed reusable by keepalive_ok and true in every
\* state from then on, whatever methods are called and whatever later
\* responses are not reusable.
C17_KeepalivesMonotone ==
    hs.keepalives_available <=> hs.reusable

\* after a reusable response, check_head has handled a response that is not
\* reusable and closed its connection: the flag is still true
C17_Witness ==
    /\ hs.keepalives_available
    /\ hs.op = "check_head"
    /\ hs.answer = "not reusable"

\* ----------------------------------------------------------------------- C18
\* the reply code of the k-th LIST: EOFError when the server answers no more
CodeAt(replies, k) == IF k <= Len(replies) THEN replies[k].code ELSE 0

\* C18: FTP reconnect-once. One call of get_ftp_dir makes at most two LISTs.
\* A first answer that is neither 530 nor EOFError / socket.error is final:
\* one LIST, the connection is kept. After a first 530 or EOFError /
\* socket.error the connection is dropped and exactly one more LIST is made:
\* when it delivers a listing, that listing is returned and nothing is
\* raised; when it ends in 530 or EOFError / socket.error again, TryLater is
\* raised.
C18_FtpReconnectOnce ==
    probe.op = "get_ftp_dir" =>
        LET first == CodeAt(probe.replies, 1)
            second == CodeAt(probe.replies, 2)
        IN  /\ probe.out.lists <= 2
            /\ first \notin {530, 0} =>
                   (probe.out.lists = 1 /\ probe.out.quits = 0)
            /\ first \in {530, 0} =>
                   /\ probe.out.lists = 2
                   /\ probe.out.quits >= 1
                   /\ second = 226 =>
                          /\ probe.out.exc = ""
                          /\ probe.out.lines = probe.replies[2].lines
                   /\ second \in {530, 0} => probe.out.exc = "TryLater"

\* a 530 on the first LIST, a listing on the second, and a third answer
\* that is never asked for
C18_Witness ==
    /\ probe.op = "get_ftp_dir"
    /\ Len(probe.replies) = 3
    /\ probe.replies[1].code = 530
    /\ probe.replies[2].code = 226
    /\ probe.out.lines = <<ListingLine(2)>>
    /\ probe.out.lists = 2

\* ----------------------------------------------------------------------- C19
\* the rows of the table that stand on a directory that is not readable
OnUnreadable(hcds) ==
    { i \in 1..Len(hcds) : /\ hcds[i].directory # NoDir
                           /\ ~directory[hcds[i].directory].readable }

\* C19: unreadable directories. The verdict map holds no verdict but null for
\* a directory that is not readable, and a sync_hcds that runs for a host
\* with a row on a directory that is not readable raises nothing and leaves
\* the up2date of that row as it was.
C19_UnreadableSkipped ==
    /\ \A k \in DOMAIN host_category_dirs :
          ~directory[k[2]].readable => host_category_dirs[k] = None
    /\ (sync.ran /\ OnUnreadable(start.hcds) # {}) =>
          /\ sync.exc = ""
          /\ \A i \in OnUnreadable(start.hcds) :
                sync.hcds[i].up2date = start.hcds[i].up2date

\* ----------------------------------------------------------------------- C20
\* C20: category filter. With names given in options.categories,
\* select_host_categories_to_scan returns the HostCategory records of the
\* host whose category name is one of them, each once and each a
\* HostCategory; with none given it returns all of host.categories; and
\* per_host goes on to scan what was returned (or leaves with "return 1"
\* when that is nothing).
C20_CategoryFilter ==
    probe.op = "select_host_categories_to_scan" =>
        LET names == { probe.options_categories[j] :
                         j \in 1..Len(probe.options_categories) }
            wanted == { i \in 1..Len(probe.categories) :
                          names = {} \/ probe.categories[i].category \in names }
        IN  /\ \A j \in 1..Len(probe.out) : probe.out[j].type = "HostCategory"
            /\ Len(probe.out) = Cardinality(wanted)
            /\ { probe.out[j].items[1].id : j \in 1..Len(probe.out) } = wanted
            /\ probe.per_host # "AttributeError"

\* ----------------------------------------------------------------------- C21
\* C21: empty expected contents. For a directory whose d.files is absent or
\* has no entries, neither try_per_dir (FTP) nor try_per_file (HTTP) returns
\* true or false, whatever the server answers.
C21_EmptyFilesNull ==
    probe.op = "try_per_dir" =>
        /\ probe.dir \notin {True, False}
        /\ probe.file \notin {True, False}

\* ----------------------------------------------------------------------- C22
\* the URL per_host selects first for the host category at index i
Selected(i) == method_pref(hostcats[i].urls, NoUrl)

RsyncPassEnds == pc = "rsync" /\ pc' = "cat"

\* C23: rsync pass without verdicts. When the rsync pass over a host category
\* ends with no key of that category in the verdict map, the host is marked
\* not-up-to-date, whatever earlier categories put into the map.
C23_MarkedWithoutCategoryVerdicts ==
    [][(RsyncPassEnds /\ ~found_in_category(host_category_dirs, hostcats[ci])) =>
          (marks' = marks + 1 /\ sess'.not_up2date)]_vars

\* C23 as the code has it: when the rsync pass over a host category ends, the
\* host is marked not-up-to-date exactly when the verdict map of the host has
\* no key at all, from this category or an earlier one; otherwise the pass
\* marks nothing and changes nothing in the session.
C23_MarkedWithEmptyMap ==
    [][RsyncPassEnds =>
          IF DOMAIN host_category_dirs = {}
          THEN marks' = marks + 1 /\ sess'.not_up2date
                                  /\ host_category_dirs' = << >>
          ELSE marks' = marks /\ sess' = sess]_vars

\* an rsync pass has ended with an empty verdict map and marked the host
C23_Witness ==
    /\ pc = "cat"
    /\ marks = 1
    /\ ~unhandled
    /\ sess.not_up2date
    /\ categoryUrl.scheme = "rsync"
    /\ host_category_dirs = << >>

\* ----------------------------------------------------------------------- C24
\* C24: host-level failure and verdict sync exclude each other. In a crawl in
\* which mark_not_up2date was called, sync_hcds is not run, and no row of the
\* table that was not up2date = true before the crawl is so in the session
\* or in the database.
C24_MarkExcludesSync ==
    (crawls > 0 /\ marks > 0) =>
        /\ ~sync.ran
        /\ \A i \in 1..Len(sess.hcds) :
              (sess.hcds[i].up2date = True) =>
                  (i <= Len(start.hcds) /\ start.hcds[i].up2date = True)

\* ----------------------------------------------------------------------- C25
\* C25: a host-level failure stops the crawl of the host. After the walker
\* caught an unhandled exception of a probe, the crawl is in no rsync loop
\* and in no walker loop again, and mark_not_up2date is called at most once
\* in a crawl.
C25_FailureStopsCrawl ==
    /\ unhandled => pc \notin {"rsync", "walk"}
    /\ marks <= 1

\* ----------------------------------------------------------------------- C26
\* C26: termination of a host crawl. Every crawl that worker starts comes to
\* a return of worker with an exit code, whatever the probes answer: TryLater
\* for every directory, exceptions, or verdicts whose ancestors end below
\* the topdir of the category.
C26_CrawlTerminates == (pc # "idle") ~> (pc = "idle" /\ exit \in 0..3)

\* a crawl in which the walker got TryLater for both directories of its
\* category has returned
C26_Witness ==
    /\ pc = "idle"
    /\ crawls > 0
    /\ exit = 0
    /\ try_later_delay = 4

\* ----------------------------------------------------------------------- C27
\* the host is in the range of ids, its site is not private, and the host
\* and its site are active on the user and on the administrator side
Eligible(host, startid, stopid) ==
    /\ startid <= host.id
    /\ host.id < stopid
    /\ ~host.site_private
    /\ host.active.admin_active
    /\ host.active.user_active
    /\ host.active.site_user_active
    /\ host.active.site_admin_active

\* C27: host selection in doit. worker is called only for hosts that are in
\* the range of ids, of a site that is not private, and active on all four
\* flags; and it is called exactly once for every such host that get_mirrors
\* returned.
C27_HostSelection ==
    probe.op = "doit" =>
        /\ \A j \in 1..Len(probe.workers) :
              Eligible(probe.workers[j], probe.startid, probe.stopid)
        /\ \A i \in 1..Len(probe.hosts) :
              (~probe.hosts[i].private
                 /\ Eligible(probe.hosts[i], probe.startid, probe.stopid)) =>
                  Cardinality({ j \in 1..Len(probe.workers) :
                                  probe.workers[j].id = probe.hosts[i].id }) = 1

====
